---- MODULE Spec2Model ----
(***************************************************************************)
(* A model of package civil (src/civil.go): the Date value type, its      *)
(* validity check, arithmetic, comparison and its text / JSON / storage    *)
(* encodings.                                                              *)
(*                                                                         *)
(* The program is a library of operations on a Date value.  The state is   *)
(* one Date variable d held by a caller together with the record of the    *)
(* last operation applied to it (operation, arguments, results).  Each     *)
(* action is one exported function or method, computed as the code         *)
(* computes it.  The calendar facility of the standard library (time.Date, *)
(* Time.Date, Time.AddDate, Time.Unix, time.Parse, fmt.Sprintf,            *)
(* json.Marshal / json.Unmarshal) is modelled by what it does, at the      *)
(* places where civil.go calls it.                                         *)
(***************************************************************************)
EXTENDS Integers, Sequences, FiniteSets

VARIABLES
    d,      \* the caller's Date variable (receiver / in-place decode target)
    prev,   \* the value of d before the last operation
    other,  \* the second Date operand of the last operation
    op,     \* the last operation
    arg,    \* the integer argument of the last operation
    num,    \* the integer result of the last operation
    flags,  \* the boolean results of the last operation
    err,    \* whether the last operation returned an error
    data    \* the bytes produced by the last encoder or given to the last decoder

vars == <<d, prev, other, op, arg, num, flags, err, data>>

-----------------------------------------------------------------------------
(* Bounds of the model *)

\* AddDays is tried with every n in -MaxDays..MaxDays and with the jumps below.
MaxDays == 1

\* AddMonths is tried with every n in -MaxMonths..MaxMonths and with the jumps below.
MaxMonths == 1

\* The years of the model: a negative century year that is not leap (-100),
\* year zero (leap by 400) with a negative and a positive neighbour, a year
\* that is leap by 4 (2012), and the step from four to five digits (10000,
\* leap by 400), each with a neighbour so that year boundaries are crossed.
Years == {-101, -100, -1, 0, 1, 2011, 2012, 9999, 10000}

\* Months and days a caller may put in a Date literal, in and out of range.
Months == 0..13

Days == 0..32

DayDeltas == (-MaxDays..MaxDays)
             \cup {-366, -365, -31, 31, 365, 366}

MonthDeltas == (-MaxMonths..MaxMonths)
               \cup {-25, -13, -12, 12, 13, 25}

DayArgs == {0, 1, 28, 29, 31}

-----------------------------------------------------------------------------
(* Go's integer arithmetic: / truncates toward zero, % takes the sign of   *)
(* the dividend.                                                           *)

Abs(x) == IF x < 0 THEN -x ELSE x

GoQuo(a, b) == IF a >= 0 THEN a \div b ELSE -((-a) \div b)

GoRem(a, b) == a - b * GoQuo(a, b)

-----------------------------------------------------------------------------
(* type Date struct { Year int; Month time.Month; Day int } *)

Date(y, m, dd) == [Year |-> y, Month |-> m, Day |-> dd]

ZeroDate == Date(0, 0, 0)

-----------------------------------------------------------------------------
(* The calendar of package time, as civil.go uses it.  A Time is an        *)
(* instant given as a day number (days since 0001-01-01 UTC, negative      *)
(* before it), the second within that day, and the offset in seconds of    *)
(* the location it is observed in.                                         *)

secondsPerDay == 86400

daysPer400Years == 146097

daysPer100Years == 36524

daysPer4Years == 1461

\* daysBefore[m] counts the days in a non-leap year before month m (Go
\* indexes it from 0, so Go's daysBefore[m-1] is daysBefore[m] here).
daysBefore == <<0, 31, 59, 90, 120, 151, 181, 212, 243, 273, 304, 334, 365>>

Time(day, sec, off) == [day |-> day, sec |-> sec, off |-> off]

isLeap(year) ==
    GoRem(year, 4) = 0 /\ (GoRem(year, 100) # 0 \/ GoRem(year, 400) = 0)

\* norm returns hi, lo such that hi * base + lo = nhi * base + nlo, 0 <= nlo < base.
norm(hi, lo, base) ==
    LET n1 == IF lo < 0 THEN GoQuo(-lo - 1, base) + 1 ELSE 0
        hi1 == hi - n1
        lo1 == lo + n1 * base
        n2 == IF lo1 >= base THEN GoQuo(lo1, base) ELSE 0
    IN  [hi |-> hi1 + n2, lo |-> lo1 - n2 * base]

\* The days from 0001-01-01 to January 1 of the year: whole 400-, 100- and
\* 4-year cycles, then single years.
daysSinceEpoch(year) ==
    LET y0 == year - 1
        n400 == y0 \div 400
        y1 == y0 - 400 * n400
        n100 == y1 \div 100
        y2 == y1 - 100 * n100
        n4 == y2 \div 4
        y3 == y2 - 4 * n4
    IN  daysPer400Years * n400 + daysPer100Years * n100 + daysPer4Years * n4
        + 365 * y3

\* time.Date(year, month, day, hour, min, sec, 0, loc) for a location of
\* fixed offset off: a month outside 1..12 carries into the year, and the
\* time of day and the day of the month carry into the day number.
TimeDate(year, month, day, hour, min, sec, off) ==
    LET ym == norm(year, month - 1, 12)
        leapDay == IF isLeap(ym.hi) /\ ym.lo + 1 >= 3 THEN 1 ELSE 0
        dayno == daysSinceEpoch(ym.hi) + daysBefore[ym.lo + 1] + leapDay + (day - 1)
        wall == norm(dayno, hour * 3600 + min * 60 + sec - off, secondsPerDay)
    IN  Time(wall.hi, wall.lo, off)

\* The year and the day within it (from 0) of a day number.
absDate(dayno) ==
    LET n400 == dayno \div daysPer400Years
        d1 == dayno - daysPer400Years * n400
        q100 == d1 \div daysPer100Years
        n100 == q100 - (q100 \div 4)
        d2 == d1 - daysPer100Years * n100
        n4 == d2 \div daysPer4Years
        d3 == d2 - daysPer4Years * n4
        q1 == d3 \div 365
        n1 == q1 - (q1 \div 4)
    IN  [year |-> 400 * n400 + 100 * n100 + 4 * n4 + n1 + 1,
         yday |-> d3 - 365 * n1]

\* Time.Date(): the year, month and day of the instant in its location.
TimeDateOf(t) ==
    LET loc == norm(t.day, t.sec + t.off, secondsPerDay)
        a == absDate(loc.hi)
        feb29 == isLeap(a.year) /\ a.yday = 31 + 29 - 1
        day == IF isLeap(a.year) /\ a.yday > 31 + 29 - 1 THEN a.yday - 1 ELSE a.yday
        m0 == day \div 31
        end == daysBefore[m0 + 2]
        month == IF day >= end THEN m0 + 2 ELSE m0 + 1
        begin == IF day >= end THEN end ELSE daysBefore[m0 + 1]
    IN  IF feb29 THEN [year |-> a.year, month |-> 2, day |-> 29]
        ELSE [year |-> a.year, month |-> month, day |-> day - begin + 1]

\* Time.AddDate(years, months, days): the date and the clock of t with the
\* three numbers added, normalized as time.Date does.
TimeAddDate(t, years, months, days) ==
    LET ymd == TimeDateOf(t)
        loc == norm(t.day, t.sec + t.off, secondsPerDay)
        clock == loc.lo
    IN  TimeDate(ymd.year + years, ymd.month + months, ymd.day + days,
                 clock \div 3600, (clock % 3600) \div 60, clock % 60, t.off)

\* t.Unix() - u.Unix().  Unix() is (day - days to 1970) * 86400 + sec; the
\* difference is formed from the day numbers directly.
UnixSub(t, u) == (t.day - u.day) * secondsPerDay + (t.sec - u.sec)

-----------------------------------------------------------------------------
(* civil.go *)

DateOf(t) ==
    LET ymd == TimeDateOf(t) IN Date(ymd.year, ymd.month, ymd.day)

In(dt) == TimeDate(dt.Year, dt.Month, dt.Day, 0, 0, 0, 0)

\* IsValid with a plausible bug: fixed bounds instead of the round trip
\* through the calendar.
IsValidFixedBounds(dt) ==
    1 <= dt.Month /\ dt.Month <= 12 /\ 1 <= dt.Day /\ dt.Day <= 31

IsValid(dt) == DateOf(In(dt)) = dt

\* AddDays with a plausible bug: n passed as the months of AddDate.
AddDaysAsMonths(dt, n) == DateOf(TimeAddDate(In(dt), 0, n, 0))

AddDays(dt, n) == DateOf(TimeAddDate(In(dt), 0, 0, n))

maxDay(year, month) ==
    CASE month = 1 -> 31
      [] month = 2 ->
            IF GoRem(year, 400) = 0 \/ (GoRem(year, 4) = 0 /\ GoRem(year, 100) # 0)
            THEN 29 ELSE 28
      [] month = 3 -> 31
      [] month = 4 -> 30
      [] month = 5 -> 31
      [] month = 6 -> 30
      [] month = 7 -> 31
      [] month = 8 -> 31
      [] month = 9 -> 30
      [] month = 10 -> 31
      [] month = 11 -> 30
      [] month = 12 -> 31
      [] OTHER -> -1

\* clampDay with a plausible bug: the day is returned as it is.
clampDayUnclamped(year, month, day) == day

clampDay(year, month, day) ==
    LET max == maxDay(year, month) IN IF day > max THEN max ELSE day

\* for month >= 12 { year++; month -= 12 }
RECURSIVE BorrowUp(_, _)
BorrowUp(year, month) ==
    IF month >= 12 THEN BorrowUp(year + 1, month - 12)
    ELSE [year |-> year, month |-> month]

\* for month < 0 { year--; month += 12 }
RECURSIVE BorrowDown(_, _)
BorrowDown(year, month) ==
    IF month < 0 THEN BorrowDown(year - 1, month + 12)
    ELSE [year |-> year, month |-> month]

\* AddMonths with a plausible bug: one borrow (an if) instead of the loops.
AddMonthsOneBorrow(dt, n) ==
    LET month == (dt.Month - 1) + n
        ym == IF month >= 12 THEN [year |-> dt.Year + 1, month |-> month - 12]
              ELSE IF month < 0 THEN [year |-> dt.Year - 1, month |-> month + 12]
              ELSE [year |-> dt.Year, month |-> month]
    IN  Date(ym.year, ym.month + 1, clampDay(ym.year, ym.month + 1, dt.Day))

\* AddMonths with a plausible bug: the day is not clamped to the new month.
AddMonthsUnclamped(dt, n) ==
    LET month == (dt.Month - 1) + n
        ym == IF month >= 12 THEN BorrowUp(dt.Year, month)
              ELSE IF month < 0 THEN BorrowDown(dt.Year, month)
              ELSE [year |-> dt.Year, month |-> month]
    IN  Date(ym.year, ym.month + 1, dt.Day)

AddMonths(dt, n) ==
    LET month == (dt.Month - 1) + n
        ym == IF month >= 12 THEN BorrowUp(dt.Year, month)
              ELSE IF month < 0 THEN BorrowDown(dt.Year, month)
              ELSE [year |-> dt.Year, month |-> month]
    IN  Date(ym.year, ym.month + 1, clampDay(ym.year, ym.month + 1, dt.Day))

SetDayClamped(dt, day) == Date(dt.Year, dt.Month, clampDay(dt.Year, dt.Month, day))

\* DaysSince with a plausible bug: the operands of the subtraction swapped.
DaysSinceSwapped(dt, s) == GoQuo(UnixSub(In(s), In(dt)), secondsPerDay)

DaysSince(dt, s) == GoQuo(UnixSub(In(dt), In(s)), secondsPerDay)

On(dt, o) == dt = o

\* Before with a plausible bug: the months are not compared.
BeforeSkipsMonth(dt, o) ==
    IF dt.Year # o.Year THEN dt.Year < o.Year
    ELSE dt.Day < o.Day

\* Before with a plausible bug: <= on the days.
BeforeOrSameDay(dt, o) ==
    IF dt.Year # o.Year THEN dt.Year < o.Year
    ELSE IF dt.Month # o.Month THEN dt.Month < o.Month
    ELSE dt.Day <= o.Day

Before(dt, o) ==
    IF dt.Year # o.Year THEN dt.Year < o.Year
    ELSE IF dt.Month # o.Month THEN dt.Month < o.Month
    ELSE dt.Day < o.Day

BeforeOrOn(dt, o) == On(dt, o) \/ Before(dt, o)

After(dt, o) == Before(o, dt)

AfterOrOn(dt, o) == On(dt, o) \/ After(dt, o)

-----------------------------------------------------------------------------
(* Text.  A string is a sequence of characters. *)

DigitChar == <<"0", "1", "2", "3", "4", "5", "6", "7", "8", "9">>

Quote == "\""

isDigit(s, i) == i <= Len(s) /\ \E v \in 1..10 : DigitChar[v] = s[i]

DigitVal(c) == (CHOOSE v \in 1..10 : DigitChar[v] = c) - 1

HasPrefix(s, c) == Len(s) >= 1 /\ s[1] = c

From(s, i) == SubSeq(s, i, Len(s))

\* The decimal digits of n >= 0.
RECURSIVE Itoa(_)
Itoa(n) ==
    IF n < 10 THEN <<DigitChar[n + 1]>>
    ELSE Itoa(n \div 10) \o <<DigitChar[(n % 10) + 1]>>

\* fmt's verb %0<width>d: the sign, then zeros up to the width, then the digits.
FormatInt(n, width) ==
    LET digits == Itoa(Abs(n))
        sign == IF n < 0 THEN <<"-">> ELSE <<>>
        pad == width - Len(sign) - Len(digits)
    IN  sign \o [i \in 1..(IF pad > 0 THEN pad ELSE 0) |-> "0"] \o digits

\* The value of a string of digits; not ok when it is empty or holds another character.
RECURSIVE leadingInt(_, _)
leadingInt(s, acc) ==
    IF s = <<>> THEN [ok |-> TRUE, val |-> acc]
    ELSE IF ~isDigit(s, 1) THEN [ok |-> FALSE, val |-> 0]
    ELSE leadingInt(Tail(s), acc * 10 + DigitVal(s[1]))

\* time's atoi: an optional sign, then digits only.
atoi(s) ==
    LET signed == Len(s) > 0 /\ s[1] \in {"-", "+"}
        body == IF signed THEN Tail(s) ELSE s
        q == leadingInt(body, 0)
    IN  IF body = <<>> \/ ~q.ok THEN [ok |-> FALSE, val |-> 0]
        ELSE [ok |-> TRUE, val |-> IF signed /\ s[1] = "-" THEN -q.val ELSE q.val]

\* time's getnum: one or two digits, exactly two when fixed.
getnum(s, fixed) ==
    IF ~isDigit(s, 1) THEN [ok |-> FALSE, val |-> 0, rest |-> s]
    ELSE IF ~isDigit(s, 2) THEN
        IF fixed THEN [ok |-> FALSE, val |-> 0, rest |-> s]
        ELSE [ok |-> TRUE, val |-> DigitVal(s[1]), rest |-> Tail(s)]
    ELSE [ok |-> TRUE, val |-> DigitVal(s[1]) * 10 + DigitVal(s[2]), rest |-> From(s, 3)]

daysIn(month, year) ==
    IF month = 2 /\ isLeap(year) THEN 29
    ELSE daysBefore[month + 1] - daysBefore[month]

NoTime == Time(0, 0, 0)

BadParse == [ok |-> FALSE, t |-> NoTime]

\* The elements "2006-01-02" of a layout, read from left to right: a year of
\* four digits, a month of two digits in 1..12 and a day of two digits.
badYMD(s) == [ok |-> FALSE, year |-> 0, month |-> 0, day |-> 0, rest |-> s]

parseDay(s, year, month, dd) ==
    IF ~dd.ok THEN badYMD(s)
    ELSE [ok |-> TRUE, year |-> year, month |-> month, day |-> dd.val,
          rest |-> dd.rest]

parseMonth(s, year, m) ==
    IF ~m.ok \/ m.val <= 0 \/ 12 < m.val THEN badYMD(s)
    ELSE IF ~HasPrefix(m.rest, "-") THEN badYMD(s)
    ELSE parseDay(s, year, m.val, getnum(Tail(m.rest), TRUE))

parseYear(s, y) ==
    IF ~y.ok THEN badYMD(s)
    ELSE IF ~HasPrefix(From(s, 5), "-") THEN badYMD(s)
    ELSE parseMonth(s, y.val, getnum(From(s, 6), TRUE))

parseYMD(s) ==
    IF Len(s) < 4 \/ ~isDigit(s, 1) THEN badYMD(s)
    ELSE parseYear(s, atoi(SubSeq(s, 1, 4)))

\* The elements "T15:04:05" of a layout, with the fraction of a second that
\* Parse accepts after the seconds although the layout has none.
RECURSIVE skipDigits(_)
skipDigits(s) == IF isDigit(s, 1) THEN skipDigits(Tail(s)) ELSE s

badClock(s) == [ok |-> FALSE, hour |-> 0, min |-> 0, sec |-> 0, rest |-> s]

parseSecond(s, hour, min, se) ==
    IF ~se.ok \/ 60 <= se.val THEN badClock(s)
    ELSE [ok |-> TRUE, hour |-> hour, min |-> min, sec |-> se.val,
          rest |-> IF Len(se.rest) >= 2 /\ se.rest[1] = "." /\ isDigit(se.rest, 2)
                   THEN skipDigits(From(se.rest, 2)) ELSE se.rest]

parseMinute(s, hour, mi) ==
    IF ~mi.ok \/ 60 <= mi.val THEN badClock(s)
    ELSE IF ~HasPrefix(mi.rest, ":") THEN badClock(s)
    ELSE parseSecond(s, hour, mi.val, getnum(Tail(mi.rest), TRUE))

parseHour(s, h) ==
    IF ~h.ok \/ 24 <= h.val THEN badClock(s)
    ELSE IF ~HasPrefix(h.rest, ":") THEN badClock(s)
    ELSE parseMinute(s, h.val, getnum(Tail(h.rest), TRUE))

parseClock(s) ==
    IF ~HasPrefix(s, "T") THEN badClock(s)
    ELSE parseHour(s, getnum(Tail(s), FALSE))

\* The element "Z07:00" of a layout: Z, or a sign, hours, a colon and minutes.
badZone(s) == [ok |-> FALSE, off |-> 0, rest |-> s]

parseOffset(s, hr, mm) ==
    IF ~hr.ok \/ ~mm.ok \/ hr.val > 24 \/ mm.val > 60 THEN badZone(s)
    ELSE IF s[1] = "+"
         THEN [ok |-> TRUE, off |-> (hr.val * 60 + mm.val) * 60, rest |-> From(s, 7)]
    ELSE IF s[1] = "-"
         THEN [ok |-> TRUE, off |-> -((hr.val * 60 + mm.val) * 60), rest |-> From(s, 7)]
    ELSE badZone(s)

parseZone(s) ==
    IF HasPrefix(s, "Z") THEN [ok |-> TRUE, off |-> 0, rest |-> Tail(s)]
    ELSE IF Len(s) < 6 THEN badZone(s)
    ELSE IF s[4] # ":" THEN badZone(s)
    ELSE parseOffset(s, getnum(SubSeq(s, 2, 3), TRUE), getnum(SubSeq(s, 5, 6), TRUE))

\* The end of a parse: text left over and a day that the month does not have
\* are errors; otherwise the Time is built by time.Date.
parsedTime(p, hour, min, sec, off, rest) ==
    IF rest # <<>> THEN BadParse
    ELSE IF p.day < 1 \/ p.day > daysIn(p.month, p.year) THEN BadParse
    ELSE [ok |-> TRUE, t |-> TimeDate(p.year, p.month, p.day, hour, min, sec, off)]

parsedDate(p) ==
    IF ~p.ok THEN BadParse ELSE parsedTime(p, 0, 0, 0, 0, p.rest)

\* time.Parse("2006-01-02", s)
timeParseDate(s) == parsedDate(parseYMD(s))

parsedZone(p, c, z) ==
    IF ~z.ok THEN BadParse ELSE parsedTime(p, c.hour, c.min, c.sec, z.off, z.rest)

parsedClock(p, c) ==
    IF ~c.ok THEN BadParse ELSE parsedZone(p, c, parseZone(c.rest))

parsedTimestamp(p) ==
    IF ~p.ok THEN BadParse ELSE parsedClock(p, parseClock(p.rest))

\* time.Parse("2006-01-02T15:04:05Z07:00", s)
timeParseRFC3339(s) == parsedTimestamp(parseYMD(s))

\* json.Marshal of a string of digits and hyphens: the string in quotes.
jsonMarshalString(s) == <<Quote>> \o s \o <<Quote>>

\* json.Unmarshal into a string, for input without escapes or white space:
\* the input has to be one string literal.
jsonUnmarshalString(b) ==
    IF /\ Len(b) >= 2
       /\ b[1] = Quote
       /\ b[Len(b)] = Quote
       /\ \A i \in 2..(Len(b) - 1) : b[i] # Quote
    THEN [ok |-> TRUE, s |-> SubSeq(b, 2, Len(b) - 1)]
    ELSE [ok |-> FALSE, s |-> <<>>]

-----------------------------------------------------------------------------
(* civil.go: text, JSON and storage encodings *)

\* if t, err := time.Parse("2006-01-02T15:04:05Z07:00", s); err == nil {...}
parseDateFallback(t) ==
    IF t.ok THEN [date |-> DateOf(t.t), err |-> FALSE]
    ELSE [date |-> ZeroDate, err |-> TRUE]

\* t, err := time.Parse("2006-01-02", s); if err != nil {...}
parseDateStrict(t, s) ==
    IF ~t.ok THEN parseDateFallback(timeParseRFC3339(s))
    ELSE [date |-> DateOf(t.t), err |-> FALSE]

ParseDate(s) == parseDateStrict(timeParseDate(s), s)

String(dt) ==
    FormatInt(dt.Year, 4) \o <<"-">> \o FormatInt(dt.Month, 2) \o <<"-">>
    \o FormatInt(dt.Day, 2)

\* The Date in the target and the error after UnmarshalText(text) on target
\* dt: *d, err = ParseDate(string(text)).
UnmarshalText(dt, text) == ParseDate(text)

MarshalJSON(dt) == jsonMarshalString(String(dt))

\* A decoder that assigns to its target only when there is no error.
keepOnError(dt, v) ==
    IF v.err THEN [date |-> dt, err |-> TRUE]
    ELSE [date |-> v.date, err |-> FALSE]

unmarshalJSONString(dt, s) ==
    IF ~s.ok THEN [date |-> dt, err |-> TRUE]
    ELSE keepOnError(dt, ParseDate(s.s))

\* The Date in the target and the error after UnmarshalJSON(b) on target dt.
UnmarshalJSON(dt, b) == unmarshalJSONString(dt, jsonUnmarshalString(b))

\* The Date in the target and the error after Scan(src) on target dt.  src is
\* a time.Time, a string or a value of another type.
Scan(dt, src) ==
    CASE src.kind = "time.Time" -> [date |-> DateOf(src.t), err |-> FALSE]
      [] src.kind = "string" -> keepOnError(dt, ParseDate(src.s))
      [] OTHER -> [date |-> dt, err |-> TRUE]

-----------------------------------------------------------------------------
(* The inputs of the decoders *)

\* "2016-01-02"
TextDate == <<"2", "0", "1", "6", "-", "0", "1", "-", "0", "2">>

\* "2016-01-02T23:59:59.999Z"
TextTimestamp == <<"2", "0", "1", "6", "-", "0", "1", "-", "0", "2", "T", "2", "3", ":", "5", "9", ":", "5", "9", ".", "9", "9", "9", "Z">>

\* "2016-01-02T23:59:59-05:00"
TextTimestampZone == <<"2", "0", "1", "6", "-", "0", "1", "-", "0", "2", "T", "2", "3", ":", "5", "9", ":", "5", "9", "-", "0", "5", ":", "0", "0">>

\* "", "bad", "2016-01-02x", "999-01-26", "2016-02-30", "2016-13-01"
TextEmpty == <<>>

TextBad == <<"b", "a", "d">>

TextTrailing == <<"2", "0", "1", "6", "-", "0", "1", "-", "0", "2", "x">>

TextShortYear == <<"9", "9", "9", "-", "0", "1", "-", "2", "6">>

TextDayRange == <<"2", "0", "1", "6", "-", "0", "2", "-", "3", "0">>

TextMonthRange == <<"2", "0", "1", "6", "-", "1", "3", "-", "0", "1">>

Texts ==
    {TextDate, TextTimestamp, TextTimestampZone, TextEmpty, TextBad,
     TextTrailing, TextShortYear, TextDayRange, TextMonthRange}

\* The JSON inputs: every text as a string literal, a number (19870415), a
\* string literal that is not closed, and text after a string literal.
JSONInputs ==
    {jsonMarshalString(t) : t \in Texts}
    \cup {<<"1", "9", "8", "7", "0", "4", "1", "5">>, <<Quote>> \o TextDate, jsonMarshalString(TextDate) \o <<"x">>}

\* The values a storage driver hands to Scan.
ScanInputs ==
    {[kind |-> "string", s |-> t, t |-> NoTime] : t \in Texts}
    \cup {[kind |-> "time.Time", s |-> <<>>, t |-> TimeDate(1987, 4, 15, 23, 59, 59, 0)],
          [kind |-> "time.Time", s |-> <<>>, t |-> TimeDate(1987, 4, 15, 23, 59, 59, -18000)],
          [kind |-> "int64", s |-> <<>>, t |-> NoTime],
          [kind |-> "nil", s |-> <<>>, t |-> NoTime]}

-----------------------------------------------------------------------------
(* The state machine: a caller holding one Date variable d. *)

\* The Dates a caller compares d with: d's own fields moved by at most one,
\* so that every order of years, months and days occurs, valid or not.
Offsets ==
    {<<0, 0, 0>>, <<0, 0, 1>>, <<0, 0, -1>>, <<0, 1, 0>>, <<0, 1, -1>>,
     <<0, -1, 1>>, <<1, -1, -1>>, <<-1, 1, 1>>, <<1, 0, 0>>}

Others(dt) ==
    {Date(dt.Year + o[1], dt.Month + o[2], dt.Day + o[3]) : o \in Offsets}

NoData == <<>>

\* d := Date{y, m, dd}: a Date is constructed from any three integers.
Init ==
    /\ d \in {Date(y, m, dd) : y \in Years, m \in Months, dd \in Days}
    /\ prev = ZeroDate
    /\ other = ZeroDate
    /\ op = "Date"
    /\ arg = 0
    /\ num = 0
    /\ flags = {}
    /\ err = FALSE
    /\ data = NoData

\* d.IsValid()
DoIsValid ==
    /\ op' = "IsValid"
    /\ flags' = IF IsValid(d) THEN {"IsValid"} ELSE {}
    /\ prev' = d
    /\ other' = ZeroDate /\ arg' = 0 /\ num' = 0
    /\ err' = FALSE /\ data' = NoData
    /\ UNCHANGED d

\* d = d.AddDays(n)
DoAddDays(n) ==
    LET r == AddDays(d, n) IN
    /\ r.Year \in Years
    /\ d' = r
    /\ prev' = d
    /\ op' = "AddDays"
    /\ arg' = n
    /\ other' = ZeroDate /\ num' = 0 /\ flags' = {}
    /\ err' = FALSE /\ data' = NoData

\* d = d.AddMonths(n)
DoAddMonths(n) ==
    LET r == AddMonths(d, n) IN
    /\ r.Year \in Years
    /\ d' = r
    /\ prev' = d
    /\ op' = "AddMonths"
    /\ arg' = n
    /\ other' = ZeroDate /\ num' = 0 /\ flags' = {}
    /\ err' = FALSE /\ data' = NoData

\* d = d.SetDayClamped(day)
DoSetDayClamped(day) ==
    /\ d' = SetDayClamped(d, day)
    /\ prev' = d
    /\ op' = "SetDayClamped"
    /\ arg' = day
    /\ other' = ZeroDate /\ num' = 0 /\ flags' = {}
    /\ err' = FALSE /\ data' = NoData

\* o.DaysSince(d)
DoDaysSince(o) ==
    /\ o.Year \in Years
    /\ op' = "DaysSince"
    /\ other' = o
    /\ num' = DaysSince(o, d)
    /\ prev' = d
    /\ arg' = 0 /\ flags' = {}
    /\ err' = FALSE /\ data' = NoData
    /\ UNCHANGED d

\* d.On(o), d.Before(o), d.BeforeOrOn(o), d.After(o), d.AfterOrOn(o)
DoCompare(o) ==
    /\ o.Year \in Years
    /\ op' = "Compare"
    /\ other' = o
    /\ flags' = {f \in {"On", "Before", "BeforeOrOn", "After", "AfterOrOn"} :
                    \/ f = "On" /\ On(d, o)
                    \/ f = "Before" /\ Before(d, o)
                    \/ f = "BeforeOrOn" /\ BeforeOrOn(d, o)
                    \/ f = "After" /\ After(d, o)
                    \/ f = "AfterOrOn" /\ AfterOrOn(d, o)}
    /\ prev' = d
    /\ arg' = 0 /\ num' = 0
    /\ err' = FALSE /\ data' = NoData
    /\ UNCHANGED d

\* The arithmetic of a Date.
Next ==
    \/ DoIsValid
    \/ \E n \in DayDeltas : DoAddDays(n)
    \/ \E n \in MonthDeltas : DoAddMonths(n)
    \/ \E day \in DayArgs : DoSetDayClamped(day)

Spec == Init /\ [][Next]_vars

\* The comparisons of two Dates.
NextOrder ==
    \/ \E o \in Others(d) : DoDaysSince(o)
    \/ \E o \in Others(d) : DoCompare(o)

SpecOrder == Init /\ [][NextOrder]_vars

\* The Dates a caller holds when it encodes or decodes: every year of the
\* model with months and days of one and of two digits, in and out of range.
CodecMonths == {0, 1, 12, 13}

CodecDays == {0, 1, 31, 32}

InitCodec ==
    /\ d \in {Date(y, m, dd) : y \in Years, m \in CodecMonths, dd \in CodecDays}
    /\ prev = ZeroDate
    /\ other = ZeroDate
    /\ op = "Date"
    /\ arg = 0
    /\ num = 0
    /\ flags = {}
    /\ err = FALSE
    /\ data = NoData

\* data, err = d.MarshalJSON()
DoMarshalJSON ==
    /\ op' = "MarshalJSON"
    /\ data' = MarshalJSON(d)
    /\ prev' = d
    /\ err' = FALSE
    /\ other' = ZeroDate /\ arg' = 0 /\ num' = 0 /\ flags' = {}
    /\ UNCHANGED d

\* The target and the error after a decoder has returned r.
Decoded(r) == d' = r.date /\ err' = r.err

\* err = d.UnmarshalText(text)
DoUnmarshalText(text) ==
    /\ op' = "UnmarshalText"
    /\ data' = text
    /\ prev' = d
    /\ Decoded(UnmarshalText(d, text))
    /\ other' = ZeroDate /\ arg' = 0 /\ num' = 0 /\ flags' = {}

\* err = d.UnmarshalJSON(b), for a given input or for the bytes MarshalJSON
\* has just produced.
DoUnmarshalJSON(b) ==
    /\ op' = "UnmarshalJSON"
    /\ data' = b
    /\ prev' = d
    /\ Decoded(UnmarshalJSON(d, b))
    /\ other' = ZeroDate /\ arg' = 0 /\ num' = 0 /\ flags' = {}

\* err = d.Scan(src)
DoScan(src) ==
    /\ op' = "Scan"
    /\ data' = src.s
    /\ prev' = d
    /\ Decoded(Scan(d, src))
    /\ other' = ZeroDate /\ arg' = 0 /\ num' = 0 /\ flags' = {}

\* The encodings of a Date.
NextCodec ==
    \/ DoMarshalJSON
    \/ \E text \in Texts : DoUnmarshalText(text)
    \/ \E b \in JSONInputs \cup (IF op = "MarshalJSON" THEN {data} ELSE {}) :
          DoUnmarshalJSON(b)
    \/ \E src \in ScanInputs : DoScan(src)

SpecCodec == InitCodec /\ [][NextCodec]_vars

-----------------------------------------------------------------------------
(* Properties *)

Min(a, b) == IF a < b THEN a ELSE b

Arithmetic == {"AddDays", "AddMonths", "SetDayClamped"}

\* C1: for every valid Date and every n, adding n days and then -n days
\* gives the Date back: after d = prev.AddDays(arg) with prev valid,
\* d.AddDays(-arg) is prev.
C1_AddDaysReversible ==
    (op = "AddDays" /\ IsValid(prev)) => AddDays(d, -arg) = prev

\* C1 witness: a valid Date moved backward across the boundary of year zero.
C1_Witness ==
    /\ op = "AddDays" /\ IsValid(prev) /\ arg = -1
    /\ prev = Date(0, 1, 1) /\ d = Date(-1, 12, 31)
    /\ AddDays(d, 1) = prev

\* C2: for every valid Date and every n, the day count from the Date to the
\* Date n days later is n: after d = prev.AddDays(arg) with prev valid,
\* d.DaysSince(prev) is arg.
C2_DaysSinceInvertsAddDays ==
    (op = "AddDays" /\ IsValid(prev)) => DaysSince(d, prev) = arg

\* C2 witness: a whole leap year counted backward.
C2_Witness ==
    /\ op = "AddDays" /\ arg = -366
    /\ prev = Date(2012, 12, 31) /\ d = Date(2011, 12, 31)
    /\ DaysSince(d, prev) = -366

\* C3: IsValid is true exactly of the triples with a month in 1..12 and a
\* day in 1..maxDay(year, month), for every year, month and day.
C3_IsValidIsRangeCheck ==
    op = "IsValid" =>
        ("IsValid" \in flags <=>
            /\ 1 <= d.Month /\ d.Month <= 12
            /\ 1 <= d.Day /\ d.Day <= maxDay(d.Year, d.Month))

\* C3 witness: February 29 of a negative century year, found invalid.
C3_Witness ==
    op = "IsValid" /\ d = Date(-100, 2, 29) /\ "IsValid" \notin flags

\* C5: for every valid Date and every n, AddMonths gives the Date computed
\* by integer division: total = (month - 1) + n, the year moved by
\* floor(total / 12), the month (total mod 12) + 1 and the day clamped to
\* the length of that month; n = 0 gives the Date itself.
C5_AddMonthsIsDivision ==
    (op = "AddMonths" /\ IsValid(prev)) =>
        LET total == (prev.Month - 1) + arg
            year == prev.Year + (total \div 12)
            month == (total % 12) + 1
        IN  /\ d = Date(year, month, Min(prev.Day, maxDay(year, month)))
            /\ (arg = 0 => d = prev)

\* C5 witness: the borrowing loop runs twice and the day is clamped.
C5_Witness ==
    /\ op = "AddMonths" /\ arg = 25
    /\ prev = Date(-1, 1, 31) /\ d = Date(1, 2, 28)

\* C8: for every valid Date and every day >= 1, SetDayClamped keeps the year
\* and the month, sets the day to min(day, maxDay(year, month)), and the
\* Date it returns is valid.
C8_SetDayClamped ==
    (op = "SetDayClamped" /\ IsValid(prev) /\ arg >= 1) =>
        /\ d.Year = prev.Year
        /\ d.Month = prev.Month
        /\ d.Day = Min(arg, maxDay(prev.Year, prev.Month))
        /\ IsValid(d)

\* C8 witness: day 31 set in February of a leap year.
C8_Witness ==
    /\ op = "SetDayClamped" /\ arg = 31
    /\ prev = Date(2012, 2, 1) /\ d = Date(2012, 2, 29)

\* C9: validity is preserved by every step of a sequence of AddDays,
\* AddMonths and SetDayClamped (day >= 1): whenever such an operation was
\* applied to a valid Date, the current Date is valid.  Every Date of such a
\* sequence that starts from a valid Date is therefore valid.
C9_ArithmeticKeepsValid ==
    (/\ op \in Arithmetic
     /\ IsValid(prev)
     /\ (op = "SetDayClamped" => arg >= 1)) => IsValid(d)

\* C9 witness: a month added to the 31st, where the day has to be clamped.
C9_Witness ==
    /\ op = "AddMonths" /\ IsValid(prev) /\ prev.Day = 31
    /\ d.Day = 28 /\ IsValid(d)

\* C4: for every two Dates, valid or not, exactly one of Before, After and
\* On holds, BeforeOrOn is (Before or On) and AfterOrOn is (After or On).
C4_ComparisonTrichotomy ==
    op = "Compare" =>
        /\ Cardinality(flags \cap {"Before", "After", "On"}) = 1
        /\ ("BeforeOrOn" \in flags <=> ("Before" \in flags \/ "On" \in flags))
        /\ ("AfterOrOn" \in flags <=> ("After" \in flags \/ "On" \in flags))

\* C4 witness: two invalid Dates of the same year that differ in the month.
C4_Witness ==
    /\ op = "Compare" /\ ~IsValid(d) /\ ~IsValid(other)
    /\ d.Year = other.Year /\ d.Month # other.Month
    /\ flags = {"After", "AfterOrOn"}

\* C10: on valid Dates the order by (year, month, day) is the order of the
\* calendar: d is before o iff o.DaysSince(d) > 0, on o iff it is 0 and
\* after o iff it is < 0.
C10_OrderAgreesWithCalendar ==
    (op = "DaysSince" /\ IsValid(d) /\ IsValid(other)) =>
        /\ (Before(d, other) <=> num > 0)
        /\ (On(d, other) <=> num = 0)
        /\ (After(d, other) <=> num < 0)

\* C10 witness: the later Date has the smaller month and day.
C10_Witness ==
    /\ op = "DaysSince" /\ IsValid(d) /\ IsValid(other)
    /\ other.Year > d.Year /\ other.Month < d.Month /\ other.Day < d.Day
    /\ num > 0 /\ Before(d, other)

Decoders == {"UnmarshalText", "UnmarshalJSON", "Scan"}

\* C6: for every valid Date, decoding its JSON encoding succeeds and gives
\* the Date: after d.UnmarshalJSON(prev.MarshalJSON()) with prev valid, there
\* is no error and d is prev.
C6_JSONRoundTrip ==
    (op = "UnmarshalJSON" /\ IsValid(prev) /\ data = MarshalJSON(prev)) =>
        (~err /\ d = prev)

\* C7: a decoder that returns an error leaves its target as it was before
\* the call.
C7_FailedDecodeKeepsTarget ==
    (op \in Decoders /\ err) => d = prev

====
